---------------------------- MODULE Spec2Model ----------------------------
(***************************************************************************)
(* Model of the flow log parser (src/main.mjs).                            *)
(*                                                                         *)
(* A JavaScript string is modelled as a sequence of one-character strings, *)
(* so that trim, split, toLowerCase, parseInt and template formatting are  *)
(* computed character by character, as the runtime computes them.          *)
(***************************************************************************)
EXTENDS Integers, Sequences, FiniteSets, TLC

VARIABLES
    help,               \* process.argv holds "--help"
    pc,                 \* position of main()
    stats,              \* results of the three fs.lstat calls
    parsedArgs,         \* value returned by parseArgs: "unset", "null", "args"
    reads,              \* files whose readFile promise has resolved
    lookupBuffer,       \* content read from the lookup file
    logfileBuffer,      \* content read from the log file
    logs,               \* parseLog(logfileBuffer)
    table,              \* buildLookupTable(lookupBuffer)
    idx,                \* number of records logs.forEach has processed
    tagCounts,          \* Map, as a sequence of [k, v] in insertion order
    portProtocolCounts, \* Map, as a sequence of [k, v] in insertion order
    output,             \* the report text
    written,            \* number of completed fs.writeFile calls
    outFile,            \* content of the output file
    exitCode            \* process exit status, -1 while running

vars == <<help, pc, stats, parsedArgs, reads, lookupBuffer, logfileBuffer,
          logs, table, idx, tagCounts, portProtocolCounts, output, written,
          outFile, exitCode>>

----------------------------------------------------------------------------
(* Bounds of the model.                                                    *)

MaxLogLines == 2
MaxCsvLines == 2

----------------------------------------------------------------------------
(* JavaScript string primitives.                                           *)

Range(s) == {s[i] : i \in 1..Len(s)}

\* position of the first c in s, 0 when there is none
IndexOf(s, c) ==
    IF \E i \in 1..Len(s) : s[i] = c
    THEN CHOOSE i \in 1..Len(s) : s[i] = c /\ \A j \in 1..(i - 1) : s[j] # c
    ELSE 0

\* the white space String.prototype.trim removes (of the characters modelled)
IsWhiteSpace(c) == c \in {" ", "\t", "\n", "\r"}

RECURSIVE TrimStart(_)
TrimStart(s) ==
    IF s # <<>> /\ IsWhiteSpace(Head(s)) THEN TrimStart(Tail(s)) ELSE s

RECURSIVE TrimEnd(_)
TrimEnd(s) ==
    IF s # <<>> /\ IsWhiteSpace(s[Len(s)])
    THEN TrimEnd(SubSeq(s, 1, Len(s) - 1))
    ELSE s

\* String.prototype.trim
Trim(s) == TrimEnd(TrimStart(s))

\* String.prototype.split with a one-character separator: the pieces between
\* every two occurrences, empty pieces included; "".split(sep) is [""]
RECURSIVE Split(_, _)
Split(s, sep) ==
    LET i == IndexOf(s, sep)
    IN  IF i = 0
        THEN <<s>>
        ELSE <<SubSeq(s, 1, i - 1)>> \o Split(SubSeq(s, i + 1, Len(s)), sep)

UpperLetters == <<"A", "B", "C", "D", "E", "F", "G", "H", "I", "J", "K", "L", "M",
                  "N", "O", "P", "Q", "R", "S", "T", "U", "V", "W", "X", "Y", "Z">>
LowerLetters == <<"a", "b", "c", "d", "e", "f", "g", "h", "i", "j", "k", "l", "m",
                  "n", "o", "p", "q", "r", "s", "t", "u", "v", "w", "x", "y", "z">>

LowerChar(c) ==
    IF IndexOf(UpperLetters, c) = 0 THEN c ELSE LowerLetters[IndexOf(UpperLetters, c)]

\* String.prototype.toLowerCase
ToLowerCase(s) == [i \in 1..Len(s) |-> LowerChar(s[i])]

Digits == <<"0", "1", "2", "3", "4", "5", "6", "7", "8", "9">>

IsDigit(c) == IndexOf(Digits, c) # 0

DigitValue(c) == IndexOf(Digits, c) - 1

\* the longest prefix of s made of decimal digits
RECURSIVE DigitPrefix(_)
DigitPrefix(s) ==
    IF s # <<>> /\ IsDigit(Head(s)) THEN <<Head(s)>> \o DigitPrefix(Tail(s)) ELSE <<>>

RECURSIVE DecimalValue(_)
DecimalValue(ds) ==
    IF ds = <<>> THEN 0
    ELSE 10 * DecimalValue(SubSeq(ds, 1, Len(ds) - 1)) + DigitValue(ds[Len(ds)])

\* parseInt(s, 10): skips leading white space, reads an optional sign and the
\* longest run of digits that follows, and ignores whatever comes after the
\* digits; NaN when there is no digit to read
parseInt(s) ==
    LET t    == TrimStart(s)
        neg  == t # <<>> /\ Head(t) = "-"
        body == IF t # <<>> /\ Head(t) \in {"-", "+"} THEN Tail(t) ELSE t
        ds   == DigitPrefix(body)
    IN  IF ds = <<>>
        THEN [isNaN |-> TRUE, value |-> 0]
        ELSE [isNaN |-> FALSE,
              value |-> IF neg THEN 0 - DecimalValue(ds) ELSE DecimalValue(ds)]

\* the decimal text of a natural number, as `${v}` formats a count
RECURSIVE NumberToString(_)
NumberToString(n) ==
    IF n < 10 THEN <<Digits[n + 1]>>
    ELSE NumberToString(n \div 10) \o <<Digits[(n % 10) + 1]>>

----------------------------------------------------------------------------
(* Log file utilities.                                                     *)

AVAILABLE_FIELDS_DEFAULT ==
    <<"version", "account-id", "interface-id", "srcaddr", "dstaddr", "srcport",
      "dstport", "protocol", "packets", "bytes", "start", "end", "action",
      "log-status">>

\* the IANA table imported from ./iana-protocol-numbers.mjs: protocol number
\* to a record holding the protocol's name
protocol_numbers ==
    (1 :> [name |-> <<"I", "C", "M", "P">>]) @@
    (6 :> [name |-> <<"T", "C", "P">>]) @@
    (17 :> [name |-> <<"U", "D", "P">>])

null == [null |-> TRUE]

\* protocol_numbers[IANAInt] is undefined for NaN and for a number the table
\* lacks; reading .name of undefined throws and the catch returns the value
handleFields(key, value) ==
    IF key = "protocol"
    THEN LET IANAInt == parseInt(value)
         IN  IF ~IANAInt.isNaN /\ IANAInt.value \in DOMAIN protocol_numbers
             THEN protocol_numbers[IANAInt.value].name
             ELSE value
    ELSE value

parseLineFromLog(line, format) ==
    LET linesArr == Split(Trim(line), " ")
    IN  IF Len(linesArr) # Len(format)
        THEN null
        ELSE [key \in Range(format) |->
                 handleFields(key, linesArr[IndexOf(format, key)])]

parseLog(buf) ==
    LET lines  == Split(Trim(buf), "\n")
        parsed == [i \in 1..Len(lines) |->
                      parseLineFromLog(lines[i], AVAILABLE_FIELDS_DEFAULT)]
    IN  SelectSeq(parsed, LAMBDA p : p # null)

----------------------------------------------------------------------------
(* Lookup table utilities.                                                 *)

\* serialize without the case folding
serializeNoLowerCase(k, v) == k \o <<",">> \o v

serialize(k, v) == ToLowerCase(k \o <<",">> \o v)

LOOKUP_DEFAULT_FORMAT == <<"dstport", "protocol", "tag">>

\* parseCSVLine without the check for empty values
parseCSVLineNoEmptyCheck(line, format) ==
    LET linesArr == Split(Trim(line), ",")
    IN  IF Len(linesArr) # Len(format)
        THEN null
        ELSE [key |-> serialize(linesArr[1], linesArr[2]), value |-> linesArr[3]]

parseCSVLine(line, format) ==
    LET linesArr == Split(Trim(line), ",")
    IN  IF Len(linesArr) # Len(format)
        THEN null
        ELSE IF linesArr[1] = <<>> \/ linesArr[2] = <<>> \/ linesArr[3] = <<>>
        THEN null
        ELSE [key |-> serialize(linesArr[1], linesArr[2]), value |-> linesArr[3]]

EmptyTable == [k \in {} |-> <<>>]

\* acc[key] = value on a plain object
SetProperty(acc, key, value) ==
    [k \in DOMAIN acc \cup {key} |-> IF k = key THEN value ELSE acc[k]]

\* the reduce callback keeping the first value of a key
LookupReducerKeepFirst(acc, line) ==
    LET parsed == parseCSVLine(line, LOOKUP_DEFAULT_FORMAT)
    IN  IF parsed # null /\ parsed.key \notin DOMAIN acc
        THEN SetProperty(acc, parsed.key, parsed.value)
        ELSE acc

\* one turn of the reduce callback of buildLookupTable
LookupReducer(acc, line) ==
    LET parsed == parseCSVLine(line, LOOKUP_DEFAULT_FORMAT)
    IN  IF parsed # null THEN SetProperty(acc, parsed.key, parsed.value) ELSE acc

\* the accumulator after the first n lines
RECURSIVE LookupReduce(_, _)
LookupReduce(lines, n) ==
    IF n = 0 THEN EmptyTable
    ELSE LookupReducer(LookupReduce(lines, n - 1), lines[n])

buildLookupTable(buf) ==
    LET lines == Split(Trim(buf), "\n")
    IN  LookupReduce(lines, Len(lines))

----------------------------------------------------------------------------
(* Map, as main() uses it: keys in first-insertion order.                  *)

MapHas(m, k) == \E i \in 1..Len(m) : m[i].k = k

\* Map.prototype.get for a key the map holds
MapGet(m, k) == m[CHOOSE i \in 1..Len(m) : m[i].k = k].v

\* Map.prototype.set: a held key keeps its place, a new key goes last
MapSet(m, k, v) ==
    IF MapHas(m, k)
    THEN [i \in 1..Len(m) |-> IF m[i].k = k THEN [k |-> k, v |-> v] ELSE m[i]]
    ELSE Append(m, [k |-> k, v |-> v])

MapKeys(m) == [i \in 1..Len(m) |-> m[i].k]

\* the counting step that creates a missing entry and does not count it
CountKeyNoFirstIncrement(m, k) ==
    IF ~MapHas(m, k) THEN MapSet(m, k, 0) ELSE MapSet(m, k, MapGet(m, k) + 1)

\* if (!m.get(k)) m.set(k, 0); m.set(k, m.get(k) + 1)
\* m.get(k) is falsy for a key the map lacks and for a count of 0
CountKey(m, k) ==
    LET m0 == IF ~MapHas(m, k) \/ MapGet(m, k) = 0 THEN MapSet(m, k, 0) ELSE m
    IN  MapSet(m0, k, MapGet(m0, k) + 1)

Untagged == <<"u", "n", "t", "a", "g", "g", "e", "d">>

\* the tag without the fallback: undefined is used as the Map key
TagOfNoFallback(tbl, portProtocolKey) ==
    IF portProtocolKey \in DOMAIN tbl
    THEN tbl[portProtocolKey]
    ELSE <<"u", "n", "d", "e", "f", "i", "n", "e", "d">>

\* table[portProtocolKey] is undefined for a key the object lacks
TagOf(tbl, portProtocolKey) ==
    IF portProtocolKey \in DOMAIN tbl THEN tbl[portProtocolKey] ELSE Untagged

\* `${k}=${v}\n` for every entry, in the map's order
RECURSIVE RenderEntries(_)
RenderEntries(m) ==
    IF m = <<>> THEN <<>>
    ELSE Head(m).k \o <<"=">> \o NumberToString(Head(m).v) \o <<"\n">>
         \o RenderEntries(Tail(m))

TagHeader == <<"T", "a", "g", " ", "c", "o", "u", "n", "t", "s", "\n">>

PortHeader ==
    <<"\n", "D", "e", "s", "t", ".", " ", "P", "o", "r", "t", ",", " ",
      "P", "r", "o", "t", "o", "c", "o", "l", " ", "c", "o", "u", "n", "t", "s", "\n">>

RenderOutput(tags, ports) ==
    TagHeader \o RenderEntries(tags) \o PortHeader \o RenderEntries(ports)

----------------------------------------------------------------------------
(* Command line utilities.                                                 *)

Paths == {"logfile", "lookup", "output"}

\* what fs.lstat finds at a path: a regular file, something else, nothing
StatResults == {"file", "dir", "enoent"}

\* parseArgs without the isFile check of the output path
ParsedArgsOfNoOutputCheck(st) ==
    IF \E p \in Paths : st[p] = "enoent" THEN "null"
    ELSE IF st["logfile"] # "file" THEN "null"
    ELSE IF st["lookup"] # "file" THEN "null"
    ELSE "args"

\* parseArgs after the argument loop: any lstat rejection, or any path that
\* is not a regular file, gives null
ParsedArgsOf(st) ==
    IF \E p \in Paths : st[p] = "enoent" THEN "null"
    ELSE IF st["logfile"] # "file" THEN "null"
    ELSE IF st["lookup"] # "file" THEN "null"
    ELSE IF st["output"] # "file" THEN "null"
    ELSE "args"

----------------------------------------------------------------------------
(* The file contents the run may read.                                     *)

RECURSIVE JoinWith(_, _)
JoinWith(parts, sep) ==
    IF parts = <<>> THEN <<>>
    ELSE IF Len(parts) = 1 THEN parts[1]
    ELSE parts[1] \o sep \o JoinWith(Tail(parts), sep)

Port80 == <<"8", "0">>
Port23 == <<"2", "3">>
Proto6 == <<"6">>
Proto17 == <<"1", "7">>
Proto99 == <<"9", "9">>
Proto6abc == <<"6", "a", "b", "c">>
Proto6dot5 == <<"6", ".", "5">>
ProtoLowerTcp == <<"t", "c", "p">>
ProtoUpperTcp == <<"T", "C", "P">>
TagWeb == <<"w", "e", "b">>
TagSsh == <<"s", "s", "h">>
TagMixed == <<"W", "e", "b">>

\* the 14 tokens of a version 2 flow log record
FlowTokens(dstport, protocol) ==
    << <<"2">>, <<"1", "2">>, <<"e", "n", "i">>, <<"a", "1">>, <<"a", "2">>,
       <<"4", "4", "3">>, dstport, protocol, <<"1", "0">>, <<"9", "9">>,
       <<"0">>, <<"9">>, <<"A", "C", "C">>, <<"O", "K">> >>

FlowLine(dstport, protocol) == JoinWith(FlowTokens(dstport, protocol), <<" ">>)

\* log lines for the whole run: single spaces, known ports and protocols
LogLines ==
    { FlowLine(Port80, Proto6), FlowLine(Port23, Proto6),
      FlowLine(Port80, ProtoLowerTcp), FlowLine(Port80, ProtoUpperTcp) }

\* log lines for the parser: other protocol tokens, other separators, other
\* token counts, surrounding white space, a blank line
LogLinesWide ==
    { FlowLine(Port80, Proto6), FlowLine(Port80, Proto6abc),
      FlowLine(Port23, Proto6dot5), FlowLine(Port80, ProtoLowerTcp),
      FlowLine(Port80, Proto99), FlowLine(Port23, Proto17),
      JoinWith(FlowTokens(Port80, Proto6), <<" ", " ">>),
      JoinWith(FlowTokens(Port80, Proto6), <<"\t">>),
      JoinWith(SubSeq(FlowTokens(Port80, Proto6), 1, 13), <<" ">>),
      <<"2", " ", " ">> \o JoinWith(SubSeq(FlowTokens(Port80, Proto6), 2, 13), <<" ">>),
      FlowLine(Port80, Proto6) \o <<" ", "x">>,
      <<" ">> \o FlowLine(Port23, Proto17) \o <<"\r">>,
      <<>> }

CsvLine(dstport, protocol, tag) == JoinWith(<<dstport, protocol, tag>>, <<",">>)

\* lookup lines for the whole run
CsvLines ==
    { CsvLine(Port80, Proto6, TagWeb), CsvLine(Port23, Proto6, TagSsh),
      CsvLine(Port80, ProtoLowerTcp, TagWeb), CsvLine(Port80, ProtoUpperTcp, TagWeb),
      CsvLine(Port80, ProtoLowerTcp, TagSsh) }

\* lookup lines for the table builder: duplicate keys with other tags, letter
\* case in every field, wrong field counts, empty fields, white space
CsvLinesWide ==
    { CsvLine(Port80, ProtoLowerTcp, TagWeb), CsvLine(Port80, ProtoUpperTcp, TagMixed),
      CsvLine(Port80, ProtoLowerTcp, TagSsh), CsvLine(Port23, Proto6, TagSsh),
      JoinWith(<<Port80, ProtoLowerTcp>>, <<",">>),
      JoinWith(<<Port80, ProtoLowerTcp, TagWeb, TagSsh>>, <<",">>),
      CsvLine(Port80, <<>>, TagWeb), CsvLine(<<>>, ProtoLowerTcp, TagWeb),
      CsvLine(Port23, ProtoLowerTcp, <<>>),
      CsvLine(Port23, ProtoLowerTcp, TagWeb) \o <<" ">>,
      CsvLine(Port23, Proto17, <<" ">>),
      <<" ">> \o CsvLine(Port80, Proto17, TagWeb) \o <<"\r">>,
      <<>> }

\* the buffers of 1..n lines drawn from a set of lines
BuffersOf(lineSet, n) ==
    UNION { { JoinWith(ls, <<"\n">>) : ls \in [1..k -> lineSet] } : k \in 1..n }

LogBuffers == BuffersOf(LogLines, MaxLogLines)
LogBuffersWide == BuffersOf(LogLinesWide, MaxLogLines)
CsvBuffers == BuffersOf(CsvLines, MaxCsvLines)
CsvBuffersWide == BuffersOf(CsvLinesWide, MaxCsvLines)

----------------------------------------------------------------------------
(* main().                                                                 *)

Init ==
    /\ help \in BOOLEAN
    /\ pc = "parseArgs"
    /\ stats = [p \in Paths |-> "unknown"]
    /\ parsedArgs = "unset"
    /\ reads = {}
    /\ lookupBuffer = <<>>
    /\ logfileBuffer = <<>>
    /\ logs = <<>>
    /\ table = EmptyTable
    /\ idx = 0
    /\ tagCounts = <<>>
    /\ portProtocolCounts = <<>>
    /\ output = <<>>
    /\ written = 0
    /\ outFile = <<>>
    /\ exitCode = -1

\* process.exit(code), or the exit an unhandled rejection of main() causes
Exit(code) ==
    /\ pc' = "exited"
    /\ exitCode' = code

\* parseArgs meets --help in the argument loop: process.exit(0)
ParseArgsHelp ==
    /\ pc = "parseArgs"
    /\ help
    /\ Exit(0)
    /\ UNCHANGED <<help, stats, parsedArgs, reads, lookupBuffer, logfileBuffer, logs,
                   table, idx, tagCounts, portProtocolCounts, output, written, outFile>>

\* parseArgs without --help: the three lstat calls and the isFile checks
ParseArgs ==
    /\ pc = "parseArgs"
    /\ ~help
    /\ \E st \in [Paths -> StatResults] :
          /\ stats' = st
          /\ parsedArgs' = ParsedArgsOf(st)
    /\ pc' = "checkArgs"
    /\ UNCHANGED <<help, reads, lookupBuffer, logfileBuffer, logs, table, idx,
                   tagCounts, portProtocolCounts, output, written, outFile, exitCode>>

\* if (parsedArgs === null) process.exit(1)
ExitInvalid ==
    /\ pc = "checkArgs"
    /\ parsedArgs = "null"
    /\ Exit(1)
    /\ UNCHANGED <<help, stats, parsedArgs, reads, lookupBuffer, logfileBuffer, logs,
                   table, idx, tagCounts, portProtocolCounts, output, written, outFile>>

\* await fs.readFile(lookup) resolves
ReadLookupOk ==
    /\ pc = "checkArgs"
    /\ parsedArgs # "null"
    /\ \E buf \in CsvBuffers : lookupBuffer' = buf
    /\ reads' = reads \cup {"lookup"}
    /\ pc' = "readLog"
    /\ UNCHANGED <<help, stats, parsedArgs, logfileBuffer, logs, table, idx,
                   tagCounts, portProtocolCounts, output, written, outFile, exitCode>>

\* await fs.readFile(lookup) rejects: main() rejects, the process exits with 1
ReadLookupFail ==
    /\ pc = "checkArgs"
    /\ parsedArgs # "null"
    /\ Exit(1)
    /\ UNCHANGED <<help, stats, parsedArgs, reads, lookupBuffer, logfileBuffer, logs,
                   table, idx, tagCounts, portProtocolCounts, output, written, outFile>>

\* await fs.readFile(logfile) resolves
ReadLogOk ==
    /\ pc = "readLog"
    /\ \E buf \in LogBuffers : logfileBuffer' = buf
    /\ reads' = reads \cup {"logfile"}
    /\ pc' = "parseLog"
    /\ UNCHANGED <<help, stats, parsedArgs, lookupBuffer, logs, table, idx,
                   tagCounts, portProtocolCounts, output, written, outFile, exitCode>>

\* await fs.readFile(logfile) rejects
ReadLogFail ==
    /\ pc = "readLog"
    /\ Exit(1)
    /\ UNCHANGED <<help, stats, parsedArgs, reads, lookupBuffer, logfileBuffer, logs,
                   table, idx, tagCounts, portProtocolCounts, output, written, outFile>>

\* the two Maps are created and the log buffer is parsed
ParseLog ==
    /\ pc = "parseLog"
    /\ tagCounts' = <<[k |-> Untagged, v |-> 0]>>
    /\ portProtocolCounts' = <<>>
    /\ logs' = parseLog(logfileBuffer)
    /\ pc' = "buildLookupTable"
    /\ UNCHANGED <<help, stats, parsedArgs, reads, lookupBuffer, logfileBuffer, table,
                   idx, output, written, outFile, exitCode>>

BuildLookupTable ==
    /\ pc = "buildLookupTable"
    /\ table' = buildLookupTable(lookupBuffer)
    /\ idx' = 0
    /\ pc' = "forEach"
    /\ UNCHANGED <<help, stats, parsedArgs, reads, lookupBuffer, logfileBuffer, logs,
                   tagCounts, portProtocolCounts, output, written, outFile, exitCode>>

\* one call of the logs.forEach callback
ForEachLog ==
    /\ pc = "forEach"
    /\ idx < Len(logs)
    /\ LET log == logs[idx + 1]
           portProtocolKey == serialize(log["dstport"], log["protocol"])
           tag == TagOf(table, portProtocolKey)
       IN  /\ tagCounts' = CountKey(tagCounts, tag)
           /\ portProtocolCounts' = CountKey(portProtocolCounts, portProtocolKey)
    /\ idx' = idx + 1
    /\ UNCHANGED <<help, pc, stats, parsedArgs, reads, lookupBuffer, logfileBuffer,
                   logs, table, output, written, outFile, exitCode>>

\* forEach has returned: the report text is built
Render ==
    /\ pc = "forEach"
    /\ idx = Len(logs)
    /\ output' = RenderOutput(tagCounts, portProtocolCounts)
    /\ pc' = "writeFile"
    /\ UNCHANGED <<help, stats, parsedArgs, reads, lookupBuffer, logfileBuffer, logs,
                   table, idx, tagCounts, portProtocolCounts, written, outFile, exitCode>>

\* await fs.writeFile(outFile, output) resolves
WriteOk ==
    /\ pc = "writeFile"
    /\ outFile' = output
    /\ written' = written + 1
    /\ pc' = "exit"
    /\ UNCHANGED <<help, stats, parsedArgs, reads, lookupBuffer, logfileBuffer, logs,
                   table, idx, tagCounts, portProtocolCounts, output, exitCode>>

\* await fs.writeFile(outFile, output) rejects
WriteFail ==
    /\ pc = "writeFile"
    /\ Exit(1)
    /\ UNCHANGED <<help, stats, parsedArgs, reads, lookupBuffer, logfileBuffer, logs,
                   table, idx, tagCounts, portProtocolCounts, output, written, outFile>>

\* process.exit(0), the last statement of main()
ExitOk ==
    /\ pc = "exit"
    /\ Exit(0)
    /\ UNCHANGED <<help, stats, parsedArgs, reads, lookupBuffer, logfileBuffer, logs,
                   table, idx, tagCounts, portProtocolCounts, output, written, outFile>>

\* the synchronous part of main() and the write that follows it
Core ==
    \/ ParseLog
    \/ BuildLookupTable
    \/ ForEachLog
    \/ Render
    \/ WriteOk
    \/ WriteFail
    \/ ExitOk

Next ==
    \/ ParseArgsHelp
    \/ ParseArgs
    \/ ExitInvalid
    \/ ReadLookupOk
    \/ ReadLookupFail
    \/ ReadLogOk
    \/ ReadLogFail
    \/ Core

Spec == Init /\ [][Next]_vars

\* main() once both files were read, holding the buffers lb and cb
AfterReads(lb, cb) ==
    /\ help = FALSE
    /\ pc = "parseLog"
    /\ stats = [p \in Paths |-> "file"]
    /\ parsedArgs = "args"
    /\ reads = {"lookup", "logfile"}
    /\ lookupBuffer = cb
    /\ logfileBuffer = lb
    /\ logs = <<>>
    /\ table = EmptyTable
    /\ idx = 0
    /\ tagCounts = <<>>
    /\ portProtocolCounts = <<>>
    /\ output = <<>>
    /\ written = 0
    /\ outFile = <<>>
    /\ exitCode = -1

InitLog ==
    \E lb \in LogBuffersWide : AfterReads(lb, CsvLine(Port80, ProtoLowerTcp, TagWeb))

\* the run from the parse of a log buffer of LogBuffersWide
SpecLog == InitLog /\ [][Core]_vars

InitLookup ==
    \E cb \in CsvBuffersWide : AfterReads(FlowLine(Port80, Proto6), cb)

\* the run from the parse of a lookup buffer of CsvBuffersWide
SpecLookup == InitLookup /\ [][Core]_vars

----------------------------------------------------------------------------
(* Vocabulary of the properties.                                           *)

NumFields == Len(AVAILABLE_FIELDS_DEFAULT)

\* the maximal runs of non-white-space characters of a line, in order
RECURSIVE Tokens(_)
Tokens(line) ==
    LET t == TrimStart(line)
        n == IF \E i \in 1..Len(t) : IsWhiteSpace(t[i])
             THEN (CHOOSE i \in 1..Len(t) :
                      IsWhiteSpace(t[i]) /\ \A j \in 1..(i - 1) : ~IsWhiteSpace(t[j])) - 1
             ELSE Len(t)
    IN  IF t = <<>> THEN <<>>
        ELSE <<SubSeq(t, 1, n)>> \o Tokens(SubSeq(t, n + 1, Len(t)))

\* the lines of a buffer, as the text between its line breaks
RawLines(buf) == Split(buf, "\n")

\* the lines the parsers iterate over
TrimmedBufferLines(buf) == Split(Trim(buf), "\n")

\* the record whose field values are the given tokens, protocol translated
RecordOfTokens(toks) ==
    [key \in Range(AVAILABLE_FIELDS_DEFAULT) |->
        handleFields(key, toks[IndexOf(AVAILABLE_FIELDS_DEFAULT, key)])]

\* the value a Map reports for a key, 0 for a key it lacks
CountOf(m, k) == IF MapHas(m, k) THEN MapGet(m, k) ELSE 0

RECURSIVE SumOfCounts(_)
SumOfCounts(m) == IF m = <<>> THEN 0 ELSE Head(m).v + SumOfCounts(Tail(m))

\* forEach has returned
Aggregated == pc \in {"writeFile", "exit"} \/ (pc = "exited" /\ output # <<>>)

\* parseLog has returned
LogParsed == pc \in {"buildLookupTable", "forEach", "writeFile", "exit"}

\* buildLookupTable has returned
TableBuilt == pc \in {"forEach", "writeFile", "exit"}

\* the step is a call of the forEach callback
ForEachStep == pc = "forEach" /\ idx < Len(logs) /\ idx' = idx + 1

\* a decimal integer: an optional sign and then digits only
IsBase10Integer(tok) ==
    LET body == IF tok # <<>> /\ Head(tok) \in {"-", "+"} THEN Tail(tok) ELSE tok
    IN  body # <<>> /\ \A i \in 1..Len(body) : IsDigit(body[i])

\* the three fields of a lookup line, or <<>> when it has not exactly three
\* non-empty comma-separated fields
CsvFields(line) ==
    LET fs == Split(line, ",")
    IN  IF Len(fs) = 3 /\ fs[1] # <<>> /\ fs[2] # <<>> /\ fs[3] # <<>> THEN fs ELSE <<>>

\* lower-cased first field, comma, lower-cased second field
NormalKey(f1, f2) == ToLowerCase(f1) \o <<",">> \o ToLowerCase(f2)

\* the sets of lookup lines of a buffer: as they stand, and trimmed
RawCsv(buf) == RawLines(buf)
TrimmedCsv(buf) == [i \in 1..Len(RawLines(buf)) |-> Trim(RawLines(buf)[i])]

\* the well-formed line i of ls is the last one carrying its key
IsLastForKey(ls, i) ==
    \A j \in (i + 1)..Len(ls) :
        CsvFields(ls[j]) # <<>> =>
            NormalKey(CsvFields(ls[j])[1], CsvFields(ls[j])[2])
                # NormalKey(CsvFields(ls[i])[1], CsvFields(ls[i])[2])

\* every well-formed line of ls has its key in tbl, and the last line
\* carrying a key gives the key's value
TableHoldsLines(tbl, ls) ==
    \A i \in 1..Len(ls) :
        CsvFields(ls[i]) # <<>> =>
            LET f == CsvFields(ls[i])
            IN  /\ NormalKey(f[1], f[2]) \in DOMAIN tbl
                /\ IsLastForKey(ls, i) => tbl[NormalKey(f[1], f[2])] = f[3]

----------------------------------------------------------------------------
(* The lookup table builder.                                               *)

ViolatesLookupFormat(line) ==
    LET fs == Split(line, ",")
    IN  Len(fs) # 3 \/ fs[1] = <<>> \/ fs[2] = <<>> \/ fs[3] = <<>>

\* C6: a lookup line that violates the field count or holds an empty field
\* leaves the accumulated table as it was before the line, and the table
\* built from the buffer is the table built from the buffer without those
\* lines.
C6_MalformedLookupLineChangesNothing ==
    TableBuilt =>
        LET lines == TrimmedBufferLines(lookupBuffer)
            kept  == SelectSeq(RawLines(lookupBuffer),
                               LAMBDA l : ~ViolatesLookupFormat(l))
        IN  /\ table = LookupReduce(lines, Len(lines))
            /\ \A n \in 1..Len(lines) :
                  ViolatesLookupFormat(lines[n]) =>
                      LookupReduce(lines, n) = LookupReduce(lines, n - 1)
            /\ table = buildLookupTable(JoinWith(kept, <<"\n">>))

\* C6: a line with an empty field after a well-formed line
C6_Witness ==
    /\ TableBuilt
    /\ lookupBuffer = CsvLine(Port80, ProtoLowerTcp, TagWeb) \o <<"\n">>
                        \o CsvLine(Port80, <<>>, TagWeb)
    /\ table = (NormalKey(Port80, ProtoLowerTcp) :> TagWeb)

----------------------------------------------------------------------------
(* The flow record parser.                                                 *)

\* the lines of the log buffer made of exactly 14 tokens
FullLines(buf) ==
    SelectSeq(TrimmedBufferLines(buf), LAMBDA l : Len(Tokens(l)) = NumFields)

\* the lines of the log buffer that parseLineFromLog accepts
AcceptedLines(buf) ==
    SelectSeq(TrimmedBufferLines(buf),
              LAMBDA l : parseLineFromLog(l, AVAILABLE_FIELDS_DEFAULT) # null)

\* C2: once parseLog has returned, every line of the log buffer made of
\* exactly 14 tokens separated by runs of white space has given one record
\* whose field values are the line's tokens in order (the protocol as
\* handleFields returns it).
C2_SplitsOnRunsOfWhiteSpace ==
    LogParsed =>
        \A i \in 1..Len(FullLines(logfileBuffer)) :
            LET toks == Tokens(FullLines(logfileBuffer)[i])
            IN  /\ parseLineFromLog(FullLines(logfileBuffer)[i],
                                    AVAILABLE_FIELDS_DEFAULT) = RecordOfTokens(toks)
                /\ \E k \in 1..Len(logs) : logs[k] = RecordOfTokens(toks)

\* C4: once parseLog has returned, logs holds one record per line of 14
\* tokens and none for any other line, in the order of the lines, so that it
\* is what parseLog returns for the buffer without the other lines.
C4_OneRecordPerFullLine ==
    LogParsed =>
        /\ Len(logs) = Len(FullLines(logfileBuffer))
        /\ \A k \in 1..Len(logs) :
              k <= Len(FullLines(logfileBuffer))
                  => logs[k] = RecordOfTokens(Tokens(FullLines(logfileBuffer)[k]))
        /\ logs = parseLog(JoinWith(FullLines(logfileBuffer), <<"\n">>))

\* the protocol field as the claim describes it: the name for a token that
\* is a decimal integer held by the table, the token itself otherwise
TranslateInteger(tok) ==
    IF IsBase10Integer(tok) /\ parseInt(tok).value \in DOMAIN protocol_numbers
    THEN protocol_numbers[parseInt(tok).value].name
    ELSE tok

\* C9: once parseLog has returned, the protocol field of every record is the
\* protocol's name when the line's protocol token is a decimal integer that
\* the protocol table holds and is the token itself otherwise, and every
\* other field is the line's token.
C9_TranslatesOnlyTableIntegers ==
    LogParsed =>
        /\ Len(logs) = Len(AcceptedLines(logfileBuffer))
        /\ \A k \in 1..Len(logs) :
              LET toks == Split(Trim(AcceptedLines(logfileBuffer)[k]), " ")
              IN  \A i \in 1..NumFields :
                      logs[k][AVAILABLE_FIELDS_DEFAULT[i]] =
                          IF AVAILABLE_FIELDS_DEFAULT[i] = "protocol"
                          THEN TranslateInteger(toks[i])
                          ELSE toks[i]

----------------------------------------------------------------------------
(* The aggregation.                                                        *)

\* the tag the lookup buffer gives a key: the third field of the last line
\* whose trimmed text has 3 non-empty fields and carries the key; <<>> when
\* no line carries it
LastTagFor(buf, key) ==
    LET ls   == TrimmedCsv(buf)
        hits == {i \in 1..Len(ls) :
                    /\ CsvFields(ls[i]) # <<>>
                    /\ NormalKey(CsvFields(ls[i])[1], CsvFields(ls[i])[2]) = key}
    IN  IF hits = {} THEN <<>>
        ELSE CsvFields(ls[CHOOSE i \in hits : \A j \in hits : j <= i])[3]

\* the tokens of the line that gave the record forEach processes next
NextLineTokens == Split(Trim(AcceptedLines(logfileBuffer)[idx + 1]), " ")

\* C1: with the lookup lines 80,6,web and 23,6,ssh and one flow record for
\* (80, 6) and one for (23, 6), the finished aggregation holds web=1, ssh=1,
\* untagged=0 and 80,6=1 and 23,6=1; and whenever a lookup line gives a tag
\* to a port and a protocol number, a flow record with that port token and
\* that protocol token is counted under the tag.
C1_NumericLookupProtocolTags ==
    Aggregated =>
        /\ (/\ lookupBuffer = CsvLine(Port80, Proto6, TagWeb) \o <<"\n">>
                                \o CsvLine(Port23, Proto6, TagSsh)
            /\ logfileBuffer = FlowLine(Port80, Proto6) \o <<"\n">>
                                \o FlowLine(Port23, Proto6))
           => /\ tagCounts = <<[k |-> Untagged, v |-> 0], [k |-> TagWeb, v |-> 1],
                               [k |-> TagSsh, v |-> 1]>>
              /\ portProtocolCounts = <<[k |-> NormalKey(Port80, Proto6), v |-> 1],
                                        [k |-> NormalKey(Port23, Proto6), v |-> 1]>>
        /\ \A i \in 1..Len(AcceptedLines(logfileBuffer)) :
              LET toks == Split(Trim(AcceptedLines(logfileBuffer)[i]), " ")
                  tag  == LastTagFor(lookupBuffer, NormalKey(toks[7], toks[8]))
              IN  (IsBase10Integer(toks[8]) /\ tag # <<>>)
                      => CountOf(tagCounts, tag) >= 1

\* C3: a call of the forEach callback for a record that came from a line
\* with dstport 80 and protocol 6, tcp or TCP, under a lookup buffer whose
\* last line for the key 80,tcp (its protocol in any letter case) gives the
\* tag web, adds exactly 1 to tagCounts[web] and exactly 1 to
\* portProtocolCounts[80,tcp].
C3_JoinIsCaseInsensitive ==
    [][ (/\ ForEachStep
         /\ NextLineTokens[7] = Port80
         /\ NextLineTokens[8] \in {Proto6, ProtoLowerTcp, ProtoUpperTcp}
         /\ LastTagFor(lookupBuffer, NormalKey(Port80, ProtoLowerTcp)) = TagWeb)
        => /\ CountOf(tagCounts', TagWeb) = CountOf(tagCounts, TagWeb) + 1
           /\ CountOf(portProtocolCounts', NormalKey(Port80, ProtoLowerTcp))
                = CountOf(portProtocolCounts, NormalKey(Port80, ProtoLowerTcp)) + 1
      ]_vars

\* C3: a record for (80, 6) counted under a lookup line written 80,TCP,web
C3_Witness ==
    /\ pc = "forEach"
    /\ idx = 1
    /\ logfileBuffer = FlowLine(Port80, Proto6)
    /\ lookupBuffer = CsvLine(Port80, ProtoUpperTcp, TagWeb)
    /\ CountOf(tagCounts, TagWeb) = 1
    /\ portProtocolCounts = <<[k |-> NormalKey(Port80, ProtoLowerTcp), v |-> 1]>>

\* the keys of m whose count differs between m and n
ChangedKeys(m, n) ==
    {k \in Range(MapKeys(m)) \cup Range(MapKeys(n)) : CountOf(m, k) # CountOf(n, k)}

\* C7: after k calls of the forEach callback the values of tagCounts sum to k
\* and the values of portProtocolCounts sum to k; a call adds exactly 1 to
\* exactly one entry of each; and the report is built only when every record
\* was processed.
C7_CountsAreConserved ==
    [][ /\ SumOfCounts(tagCounts) = idx
        /\ SumOfCounts(portProtocolCounts) = idx
        /\ SumOfCounts(tagCounts') = idx'
        /\ SumOfCounts(portProtocolCounts') = idx'
        /\ idx' <= Len(logs')
        /\ output' # <<>> => idx' = Len(logs')
        /\ ForEachStep =>
              /\ \E k \in ChangedKeys(tagCounts, tagCounts') :
                    /\ ChangedKeys(tagCounts, tagCounts') = {k}
                    /\ CountOf(tagCounts', k) = CountOf(tagCounts, k) + 1
              /\ \E k \in ChangedKeys(portProtocolCounts, portProtocolCounts') :
                    /\ ChangedKeys(portProtocolCounts, portProtocolCounts') = {k}
                    /\ CountOf(portProtocolCounts', k)
                         = CountOf(portProtocolCounts, k) + 1
      ]_vars

\* C7: two records processed, in two buckets of each table
C7_Witness ==
    /\ Aggregated
    /\ idx = 2
    /\ Len(portProtocolCounts) = 2
    /\ Len(tagCounts) = 2
    /\ SumOfCounts(tagCounts) = 2

\* s begins with the text p
StartsWith(s, p) == Len(s) >= Len(p) /\ SubSeq(s, 1, Len(p)) = p

\* C8: a call of the forEach callback for a record whose lower-cased dstport,
\* comma, lower-cased protocol is no key of the lookup table adds exactly 1
\* to tagCounts[untagged], changes no other tag count and creates no tag key;
\* untagged is the first entry of tagCounts from the creation of the Map, with
\* value 0, and is the first entry of the report.
C8_UntaggedFallback ==
    [][ /\ (ForEachStep
            /\ NormalKey(logs[idx + 1]["dstport"], logs[idx + 1]["protocol"])
                  \notin DOMAIN table)
           => /\ CountOf(tagCounts', Untagged) = CountOf(tagCounts, Untagged) + 1
              /\ MapKeys(tagCounts') = MapKeys(tagCounts)
              /\ ChangedKeys(tagCounts, tagCounts') = {Untagged}
        /\ (pc = "parseLog" /\ pc' # "parseLog")
           => tagCounts' = <<[k |-> Untagged, v |-> 0]>>
        /\ tagCounts' # <<>> => tagCounts'[1].k = Untagged
        /\ output' # <<>>
           => StartsWith(output',
                         TagHeader \o Untagged \o <<"=">>
                           \o NumberToString(CountOf(tagCounts', Untagged)) \o <<"\n">>)
      ]_vars

\* C8: one tagged and one untagged record, the report written
C8_Witness ==
    /\ written = 1
    /\ idx = 2
    /\ tagCounts = <<[k |-> Untagged, v |-> 1], [k |-> TagWeb, v |-> 1]>>
    /\ StartsWith(outFile, TagHeader \o Untagged \o <<"=", "1", "\n">>)

----------------------------------------------------------------------------
(* The order of the run.                                                   *)

\* C10, as stated: the report is written at most once, and only after the
\* three paths were found to be regular files, both inputs were read and the
\* aggregation finished; a run whose validation fails writes nothing and
\* exits with a non-zero status; only a run that completed the write exits
\* with status 0.
C10_ExitZeroOnlyAfterWrite ==
    /\ written <= 1
    /\ written = 1 =>
          /\ \A p \in Paths : stats[p] = "file"
          /\ reads = {"lookup", "logfile"}
          /\ idx = Len(logs)
          /\ outFile = RenderOutput(tagCounts, portProtocolCounts)
    /\ (\E p \in Paths : stats[p] \in {"dir", "enoent"}) =>
          /\ written = 0
          /\ parsedArgs = "null"
          /\ pc = "exited" => exitCode = 1
    /\ exitCode = 0 => written = 1

\* C10, amended: the same, except that a run given --help also exits with
\* status 0, before any validation and without writing; every other run that
\* exits with status 0 completed the write.
C10_ExitZeroAfterWriteOrHelp ==
    /\ written <= 1
    /\ written = 1 =>
          /\ \A p \in Paths : stats[p] = "file"
          /\ reads = {"lookup", "logfile"}
          /\ idx = Len(logs)
          /\ outFile = RenderOutput(tagCounts, portProtocolCounts)
    /\ (\E p \in Paths : stats[p] \in {"dir", "enoent"}) =>
          /\ written = 0
          /\ parsedArgs = "null"
          /\ pc = "exited" => exitCode = 1
    /\ exitCode = 0 => (written = 1 \/ help)
    /\ help => (written = 0 /\ reads = {})

\* C10: a run that wrote the report of two records and exited with status 0
C10_Witness ==
    /\ ~help
    /\ exitCode = 0
    /\ written = 1
    /\ idx = 2

=============================================================================
